---- MODULE Spec2Model ----
(***************************************************************************)
(* Lexer and parser of the Monkey front-end (src/src/token.rs,             *)
(* src/src/lexer.rs, src/src/parser.rs, src/src/ast.rs).                   *)
(*                                                                         *)
(* A source string is a sequence of bytes (0..255).  Rust index i of the   *)
(* input is input[i + 1] here.  A token literal is a sequence of bytes.    *)
(* A panic (unwrap on Err / None) is recorded in `abort`.                  *)
(***************************************************************************)
EXTENDS Integers, Sequences, FiniteSets, TLC

VARIABLES
    input,          \* Lexer.input, as bytes
    l,              \* Lexer cursor: position, read_position, ch
    tok,            \* the token the last Lexer::next_token call of the token loop returned
    current_token,  \* Parser.current_token
    peek_token,     \* Parser.peek_token
    errors,         \* Parser.errors
    program,        \* Program.statements of parse_program
    statement,      \* the Option<Statement> parse_statement returned (parse_program line 77)
    let_token,      \* local of parse_let_statement / return_token of parse_return_statement
    statement_name, \* local of parse_let_statement
    out,            \* local `out` of Program::string
    si,             \* number of statements Program::string has gone through
    pc,             \* where the running client is
    abort           \* "none", or the panic that ended the run

vars == <<input, l, tok, current_token, peek_token, errors, program, statement,
          let_token, statement_name, out, si, pc, abort>>

(***************************************************************************)
(* Bounds                                                                  *)
(***************************************************************************)
\* number of lexemes concatenated into a free-form source
MaxChunks == 3
\* number of statements in a source made of whole statements
MaxStmts == 2
\* number of prefix operators in front of an operand
MaxChain == 2
\* how far past the end of the input the cursor is followed
MaxOverrun == 3

(***************************************************************************)
(* Evaluation helper                                                       *)
(***************************************************************************)
\* F applied to the value of v: v is evaluated once, however often F uses it
\* (a `let x = v;` of the code)
Bind(v, F(_)) == CHOOSE r \in {F(x) : x \in {v}} : TRUE

(***************************************************************************)
(* token.rs                                                                *)
(***************************************************************************)
TokenType == {"Illegal", "Eof", "Ident", "Int", "Assign", "Plus", "Minus", "Bang",
              "Asterisk", "Slash", "Lt", "Gt", "Eq", "NotEq", "Comma", "Semicolon",
              "LParen", "RParen", "LBrace", "RBrace", "Function", "Let", "True",
              "False", "If", "Else", "Return"}

\* placeholder where no token has been produced
NoToken == [token_type |-> "None", literal |-> <<>>]

new_from_str(token_type, str) == [token_type |-> token_type, literal |-> str]

\* the constructor with the empty literal for the NUL byte
new_from_byte_nul_empty(token_type, byte) ==
    IF byte < 128
    THEN [panic |-> FALSE,
          tok |-> [token_type |-> token_type,
                   literal |-> IF byte = 0 THEN <<>> ELSE <<byte>>]]
    ELSE [panic |-> TRUE, tok |-> [token_type |-> "None", literal |-> <<>>]]

\* from_utf8(&[byte]).unwrap(): a single byte is valid UTF-8 only below 128
new_from_byte(token_type, byte) ==
    IF byte < 128
    THEN [panic |-> FALSE, tok |-> [token_type |-> token_type, literal |-> <<byte>>]]
    ELSE [panic |-> TRUE, tok |-> NoToken]

\* the lookup on the lower-case spelling of the identifier
lookup_ident_ignore_case(ident) ==
    LET lower == [i \in 1..Len(ident) |->
                     IF 65 <= ident[i] /\ ident[i] <= 90 THEN ident[i] + 32 ELSE ident[i]]
    IN CASE lower = <<102, 110>> -> "Function"
         [] lower = <<108, 101, 116>> -> "Let"
         [] lower = <<116, 114, 117, 101>> -> "True"
         [] lower = <<102, 97, 108, 115, 101>> -> "False"
         [] lower = <<105, 102>> -> "If"
         [] lower = <<101, 108, 115, 101>> -> "Else"
         [] lower = <<114, 101, 116, 117, 114, 110>> -> "Return"
         [] OTHER -> "Ident"

lookup_ident(ident) ==
    CASE ident = <<102, 110>> -> "Function"                       \* "fn"
      [] ident = <<108, 101, 116>> -> "Let"                       \* "let"
      [] ident = <<116, 114, 117, 101>> -> "True"                 \* "true"
      [] ident = <<102, 97, 108, 115, 101>> -> "False"            \* "false"
      [] ident = <<105, 102>> -> "If"                             \* "if"
      [] ident = <<101, 108, 115, 101>> -> "Else"                 \* "else"
      [] ident = <<114, 101, 116, 117, 114, 110>> -> "Return"     \* "return"
      [] OTHER -> "Ident"

(***************************************************************************)
(* lexer.rs                                                                *)
(***************************************************************************)
\* the identifier class widened by the digits
is_letter_or_digit(ch) ==
    \/ 97 <= ch /\ ch <= 122
    \/ 65 <= ch /\ ch <= 90
    \/ ch = 95
    \/ 48 <= ch /\ ch <= 57

is_letter(ch) ==
    \/ 97 <= ch /\ ch <= 122
    \/ 65 <= ch /\ ch <= 90
    \/ ch = 95

\* the digit class widened by the decimal point
is_digit_or_dot(ch) == (48 <= ch /\ ch <= 57) \/ ch = 46

is_digit(ch) == 48 <= ch /\ ch <= 57

\* read_char with the increment of read_position in the else branch only
read_char_stall_at_end(lx) ==
    IF lx.read_position >= Len(input)
    THEN [ch |-> 0, position |-> lx.read_position, read_position |-> lx.read_position]
    ELSE [ch |-> input[lx.read_position + 1],
          position |-> lx.read_position,
          read_position |-> lx.read_position + 1]

read_char(lx) ==
    [ch |-> IF lx.read_position >= Len(input) THEN 0 ELSE input[lx.read_position + 1],
     position |-> lx.read_position,
     read_position |-> lx.read_position + 1]

\* the lookahead taken at position instead of read_position
peek_char_at_position(lx) ==
    IF lx.position >= Len(input) THEN 0 ELSE input[lx.position + 1]

peek_char(lx) ==
    IF lx.read_position >= Len(input) THEN 0 ELSE input[lx.read_position + 1]

\* Lexer::new
new_lexer == read_char([ch |-> 0, position |-> 0, read_position |-> 0])

RECURSIVE read_identifier_loop(_)
\* while is_letter(self.ch) { self.read_char(); }
read_identifier_loop(lx) ==
    IF is_letter(lx.ch) THEN Bind(read_char(lx), read_identifier_loop) ELSE lx

\* &self.input[position..self.position]
read_identifier(lx) ==
    Bind(read_identifier_loop(lx),
         LAMBDA l2 : [l |-> l2, literal |-> SubSeq(input, lx.position + 1, l2.position)])

RECURSIVE read_number_loop(_)
\* while is_digit(self.ch) { self.read_char(); }
read_number_loop(lx) ==
    IF is_digit(lx.ch) THEN Bind(read_char(lx), read_number_loop) ELSE lx

read_number(lx) ==
    Bind(read_number_loop(lx),
         LAMBDA l2 : [l |-> l2, literal |-> SubSeq(input, lx.position + 1, l2.position)])

RECURSIVE skip_whitespace(_)
skip_whitespace(lx) ==
    IF lx.ch = 32 \/ lx.ch = 9 \/ lx.ch = 10 \/ lx.ch = 13
    THEN Bind(read_char(lx), skip_whitespace)
    ELSE lx

\* the arms of next_token without the read_char after the match
single_char_token_no_advance(lx, token_type, byte) ==
    LET r == new_from_byte(token_type, byte)
    IN IF r.panic
       THEN [l |-> lx, tok |-> NoToken, panic |-> TRUE]
       ELSE [l |-> lx, tok |-> r.tok, panic |-> FALSE]

\* the arms of next_token that build the token from one byte and then read_char
single_char_token(lx, token_type, byte) ==
    LET r == new_from_byte(token_type, byte)
    IN IF r.panic
       THEN [l |-> lx, tok |-> NoToken, panic |-> TRUE]
       ELSE [l |-> read_char(lx), tok |-> r.tok, panic |-> FALSE]

\* the arms for '=' and '!' with the literal of the first byte only
two_char_token_first_byte_literal(lx, single_type, double_type) ==
    IF peek_char(lx) = 61
    THEN LET l2 == read_char(lx)
         IN [l |-> read_char(l2),
             tok |-> new_from_str(double_type, <<lx.ch>>),
             panic |-> FALSE]
    ELSE single_char_token(lx, single_type, lx.ch)

\* the arms for '=' and '!': one byte of lookahead
two_char_token(lx, single_type, double_type) ==
    IF peek_char(lx) = 61
    THEN LET l2 == read_char(lx)
         IN [l |-> read_char(l2),
             tok |-> new_from_str(double_type, <<lx.ch, l2.ch>>),
             panic |-> FALSE]
    ELSE single_char_token(lx, single_type, lx.ch)

\* next_token after skip_whitespace: the match on self.ch and the final read_char
match_ch(lx) ==
    LET ch == lx.ch
    IN CASE ch = 61 -> two_char_token(lx, "Assign", "Eq")
         [] ch = 33 -> two_char_token(lx, "Bang", "NotEq")
         [] ch = 59 -> single_char_token(lx, "Semicolon", ch)
         [] ch = 40 -> single_char_token(lx, "LParen", ch)
         [] ch = 41 -> single_char_token(lx, "RParen", ch)
         [] ch = 44 -> single_char_token(lx, "Comma", ch)
         [] ch = 43 -> single_char_token(lx, "Plus", ch)
         [] ch = 123 -> single_char_token(lx, "LBrace", ch)
         [] ch = 125 -> single_char_token(lx, "RBrace", ch)
         [] ch = 45 -> single_char_token(lx, "Minus", ch)
         [] ch = 47 -> single_char_token(lx, "Slash", ch)
         [] ch = 42 -> single_char_token(lx, "Asterisk", ch)
         [] ch = 60 -> single_char_token(lx, "Lt", ch)
         [] ch = 62 -> single_char_token(lx, "Gt", ch)
         [] ch = 0 -> single_char_token(lx, "Eof", 0)
         [] OTHER ->
              IF is_letter(ch)
              THEN Bind(read_identifier(lx),
                        LAMBDA r : [l |-> r.l,
                                    tok |-> new_from_str(lookup_ident(r.literal), r.literal),
                                    panic |-> FALSE])
              ELSE IF is_digit(ch)
              THEN Bind(read_number(lx),
                        LAMBDA r : [l |-> r.l, tok |-> new_from_str("Int", r.literal),
                                    panic |-> FALSE])
              ELSE single_char_token(lx, "Illegal", ch)

\* Lexer::next_token: the lexer after the call, the token returned, or a panic
next_token(lx0) == Bind(skip_whitespace(lx0), match_ch)

(***************************************************************************)
(* ast.rs: node constructors                                               *)
(***************************************************************************)
\* Option::None, for an Option<Expression> or an Option<Statement>
None == [kind |-> "None"]

IdentifierStruct(token, value) ==
    [kind |-> "Identifier", token |-> token, value |-> value]

\* value is the Option<i64>: [some |-> TRUE, val |-> digits] or [some |-> FALSE]
IntegerLiteralStruct(token, value) ==
    [kind |-> "IntegerLiteral", token |-> token, value |-> value]

PrefixExpressionStruct(token, operator, right) ==
    [kind |-> "PrefixExpression", token |-> token, operator |-> operator, right |-> right]

LetStatement(token, name, value) ==
    [kind |-> "Let", token |-> token, name |-> name, value |-> value]

ReturnStatement(token, value) ==
    [kind |-> "Return", token |-> token, value |-> value]

ExpressionStatement(token, expression) ==
    [kind |-> "Expression", token |-> token, expression |-> expression]

(***************************************************************************)
(* ast.rs: Node::string.  A result is [panic, str].                        *)
(***************************************************************************)
\* i64::to_string of a value that is not negative
to_string(val) == [i \in 1..Len(val) |-> val[i] + 48]

RECURSIVE expression_string(_)
\* Expression::string
expression_string(e) ==
    CASE e.kind = "Identifier" -> [panic |-> FALSE, str |-> e.value]
      [] e.kind = "IntegerLiteral" ->
            IF e.value.some
            THEN [panic |-> FALSE, str |-> to_string(e.value.val)]
            ELSE [panic |-> TRUE, str |-> <<>>]
      [] e.kind = "PrefixExpression" ->
            Bind(expression_string(e.right),
                 LAMBDA r : IF r.panic THEN r
                            ELSE [panic |-> FALSE,
                                  str |-> <<40>> \o e.operator \o r.str \o <<41>>])

\* Statement::token_literal
token_literal(s) == s.token.literal

\* `if let Some(val) = &value { out.push_str(&val.string()); }`
push_value(outstr, value) ==
    IF value.kind = "None" THEN [panic |-> FALSE, str |-> outstr]
    ELSE Bind(expression_string(value),
              LAMBDA r : IF r.panic THEN r
                         ELSE [panic |-> FALSE, str |-> outstr \o r.str])

\* Statement::string with the Let arm writing to an `out` of its own
statement_string_let_shadowed(s) ==
    CASE s.kind = "Let" ->
            Bind(push_value(token_literal(s) \o <<32>> \o s.name.value \o <<32, 61, 32>>,
                            s.value),
                 LAMBDA r : IF r.panic THEN r ELSE [panic |-> FALSE, str |-> <<>>])
      [] s.kind = "Return" ->
            Bind(push_value(token_literal(s) \o <<32>>, s.value),
                 LAMBDA r : IF r.panic THEN r ELSE [panic |-> FALSE, str |-> <<>>])
      [] s.kind = "Expression" -> push_value(<<>>, s.expression)

\* Statement::string.  The Return arm builds its text in a second `out`
\* declared inside the arm; the function returns the outer one.
statement_string(s) ==
    CASE s.kind = "Let" ->
            Bind(expression_string(s.name),
                 LAMBDA n :
                    IF n.panic THEN n
                    ELSE Bind(push_value(token_literal(s) \o <<32>> \o n.str
                                             \o <<32, 61, 32>>, s.value),
                              LAMBDA r : IF r.panic THEN r
                                         ELSE [panic |-> FALSE, str |-> r.str \o <<59>>]))
      [] s.kind = "Return" ->
            Bind(push_value(token_literal(s) \o <<32>>, s.value),
                 LAMBDA r : IF r.panic THEN r ELSE [panic |-> FALSE, str |-> <<>>])
      [] s.kind = "Expression" -> push_value(<<>>, s.expression)

(***************************************************************************)
(* parser.rs.  A parser value p is the record of the Parser's fields plus  *)
(* the panic flag: l, current_token, peek_token, errors, abort.  Once      *)
(* abort is set the remaining code of the call chain does not run.         *)
(***************************************************************************)
LOWEST == 1
PREFIX == 6

\* i64::MAX, as decimal digits
I64MaxDigits == <<9, 2, 2, 3, 3, 7, 2, 0, 3, 6, 8, 5, 4, 7, 7, 5, 8, 0, 7>>

\* the digits from the first one that is not a leading zero
StripZeros(ds) ==
    LET nonzero == {i \in 1..Len(ds) : ds[i] # 0}
    IN IF nonzero = {} THEN <<0>>
       ELSE SubSeq(ds, CHOOSE i \in nonzero : \A j \in nonzero : i <= j, Len(ds))

\* ds <= es for digit sequences of the same length
DigitsLeq(ds, es) ==
    LET differ == {i \in 1..Len(ds) : ds[i] # es[i]}
    IN \/ differ = {}
       \/ LET i == CHOOSE i \in differ : \A j \in differ : i <= j
          IN ds[i] < es[i]

\* An i64 value is kept as its decimal digits without leading zeros (<<0>> for
\* zero): the integers of the checker are narrower than 64 bits.
RECURSIVE ToDigits(_)
\* the decimal digits of the natural number n
ToDigits(n) == IF n < 10 THEN <<n>> ELSE Append(ToDigits(n \div 10), n % 10)

RECURSIVE OctalValue(_, _)
OctalValue(ds, n) ==
    IF n = 0 THEN 0 ELSE 8 * OctalValue(ds, n - 1) + ds[n]

\* u64::MAX, as decimal digits
U64MaxDigits == <<1, 8, 4, 4, 6, 7, 4, 4, 0, 7, 3, 7, 0, 9, 5, 5, 1, 6, 1, 5>>

\* the conversion with the base taken from the literal's prefix, as
\* strconv.ParseInt(s, 0, 64) does: a leading 0 makes the literal octal
parse_i64_base0(literal) ==
    IF literal = <<>> \/ \E i \in 1..Len(literal) : ~is_digit(literal[i])
    THEN [some |-> FALSE]
    ELSE IF Len(literal) > 1 /\ literal[1] = 48
    THEN IF \E i \in 1..Len(literal) : literal[i] > 55
         THEN [some |-> FALSE]
         ELSE [some |-> TRUE,
               val |-> ToDigits(OctalValue([i \in 1..Len(literal) |-> literal[i] - 48],
                                           Len(literal)))]
    ELSE [some |-> TRUE, val |-> StripZeros([i \in 1..Len(literal) |-> literal[i] - 48])]

\* the conversion with the range of the unsigned type, as str::parse::<u64>
parse_i64_as_u64(literal) ==
    IF literal = <<>> \/ \E i \in 1..Len(literal) : ~is_digit(literal[i])
    THEN [some |-> FALSE]
    ELSE Bind(StripZeros([i \in 1..Len(literal) |-> literal[i] - 48]),
              LAMBDA ds : IF Len(ds) < Len(U64MaxDigits)
                             \/ (Len(ds) = Len(U64MaxDigits) /\ DigitsLeq(ds, U64MaxDigits))
                          THEN [some |-> TRUE, val |-> ds]
                          ELSE [some |-> FALSE])

\* str::parse::<i64> on a literal: Ok(val) or Err
parse_i64(literal) ==
    IF literal = <<>> \/ \E i \in 1..Len(literal) : ~is_digit(literal[i])
    THEN [some |-> FALSE]
    ELSE Bind(StripZeros([i \in 1..Len(literal) |-> literal[i] - 48]),
              LAMBDA ds : IF Len(ds) < Len(I64MaxDigits)
                             \/ (Len(ds) = Len(I64MaxDigits) /\ DigitsLeq(ds, I64MaxDigits))
                          THEN [some |-> TRUE, val |-> ds]
                          ELSE [some |-> FALSE])

\* peek_error naming the kind of the current token as the actual one
peek_error_got_current(p, t) ==
    [p EXCEPT !.errors = Append(@, [error |-> "ExpectedNextToken", expected |-> t,
                                    got |-> p.current_token.token_type])]

peek_error(p, t) ==
    [p EXCEPT !.errors = Append(@, [error |-> "ExpectedNextToken", expected |-> t,
                                    got |-> p.peek_token.token_type])]

no_prefix_parse_fn_error(p, t) ==
    [p EXCEPT !.errors = Append(@, [error |-> "NoPrefixParseFn", kind |-> t])]

\* Parser::next_token taking both tokens of the window from the lexer
parser_next_token_pulls_two(p) ==
    IF p.abort # "none" THEN p
    ELSE Bind(next_token(p.l),
              LAMBDA r1 :
                 IF r1.panic
                 THEN [p EXCEPT !.l = r1.l, !.abort = "from_utf8"]
                 ELSE Bind(next_token(r1.l),
                           LAMBDA r2 :
                              IF r2.panic
                              THEN [p EXCEPT !.current_token = r1.tok, !.l = r2.l,
                                             !.abort = "from_utf8"]
                              ELSE [p EXCEPT !.current_token = r1.tok,
                                             !.peek_token = r2.tok, !.l = r2.l]))

\* Parser::next_token
parser_next_token(p) ==
    IF p.abort # "none" THEN p
    ELSE Bind(next_token(p.l),
              LAMBDA r : IF r.panic
                         THEN [p EXCEPT !.current_token = p.peek_token, !.l = r.l,
                                        !.abort = "from_utf8"]
                         ELSE [p EXCEPT !.current_token = p.peek_token,
                                        !.peek_token = r.tok, !.l = r.l])

cur_token_is(p, t) == p.current_token.token_type = t

peek_token_is(p, t) == p.peek_token.token_type = t

\* expect_peek that reports the match without advancing
expect_peek_no_advance(p, t) ==
    IF peek_token_is(p, t)
    THEN [p |-> p, ok |-> TRUE]
    ELSE [p |-> peek_error(p, t), ok |-> FALSE]

\* expect_peek that advances on a mismatch too
expect_peek_advance_on_failure(p, t) ==
    IF peek_token_is(p, t)
    THEN [p |-> parser_next_token(p), ok |-> TRUE]
    ELSE [p |-> parser_next_token(peek_error(p, t)), ok |-> FALSE]

expect_peek(p, t) ==
    IF peek_token_is(p, t)
    THEN [p |-> parser_next_token(p), ok |-> TRUE]
    ELSE [p |-> peek_error(p, t), ok |-> FALSE]

parse_identifier(p) ==
    [p |-> p,
     exp |-> IdentifierStruct(p.current_token, p.current_token.literal)]

parse_integer_literal(p) ==
    Bind(parse_i64(p.current_token.literal),
         LAMBDA value :
            [p |-> IF value.some THEN p
                   ELSE [p EXCEPT !.errors =
                             Append(@, [error |-> "CouldNotParseInteger",
                                        literal |-> p.current_token.literal])],
             exp |-> IntegerLiteralStruct(p.current_token, value)])

RECURSIVE parse_expression(_, _)

\* parse_prefix_expression, line 244: .unwrap() of the operand, and the node
unwrap_right(token, operator, right) ==
    IF right.p.abort # "none" THEN [p |-> right.p, exp |-> None]
    ELSE IF right.exp.kind = "None"
    THEN [p |-> [right.p EXCEPT !.abort = "unwrap_none"], exp |-> None]
    ELSE [p |-> right.p, exp |-> PrefixExpressionStruct(token, operator, right.exp)]

\* parse_prefix_expression with the operator read after self.next_token()
parse_prefix_expression_operator_late(p) ==
    Bind(parser_next_token(p),
         LAMBDA p1 :
            IF p1.abort # "none" THEN [p |-> p1, exp |-> None]
            ELSE Bind(parse_expression(p1, PREFIX),
                      LAMBDA right :
                         unwrap_right(p.current_token, p1.current_token.literal, right)))

\* exp is None where the code panics before returning
parse_prefix_expression(p) ==
    Bind(parser_next_token(p),
         LAMBDA p1 :
            IF p1.abort # "none" THEN [p |-> p1, exp |-> None]
            ELSE Bind(parse_expression(p1, PREFIX),
                      LAMBDA right :
                         unwrap_right(p.current_token, p.current_token.literal, right)))

prefix_parse_fns(p, token_type) ==
    CASE token_type = "Ident" -> parse_identifier(p)
      [] token_type = "Int" -> parse_integer_literal(p)
      [] token_type = "Bang" -> parse_prefix_expression(p)
      [] token_type = "Minus" -> parse_prefix_expression(p)
      [] OTHER -> [p |-> p, exp |-> None]

parse_expression(p, precedence) ==
    Bind(prefix_parse_fns(p, p.current_token.token_type),
         LAMBDA left_exp :
            IF left_exp.p.abort # "none" THEN left_exp
            ELSE IF left_exp.exp.kind = "None"
            THEN [p |-> no_prefix_parse_fn_error(left_exp.p, p.current_token.token_type),
                  exp |-> None]
            ELSE left_exp)

\* parse_expression_statement that requires the ';' with expect_peek
parse_expression_statement_expects_semicolon(p) ==
    Bind(parse_expression(p, LOWEST),
         LAMBDA expression :
            IF expression.p.abort # "none" THEN [p |-> expression.p, stmt |-> None]
            ELSE Bind(expect_peek(expression.p, "Semicolon"),
                      LAMBDA e :
                         [p |-> e.p,
                          stmt |-> IF e.p.abort # "none" \/ ~e.ok THEN None
                                   ELSE ExpressionStatement(p.current_token,
                                                            expression.exp)]))

\* Some(expression)? is expression itself: the statement is built in every case
parse_expression_statement(p) ==
    Bind(parse_expression(p, LOWEST),
         LAMBDA expression :
            IF expression.p.abort # "none" THEN [p |-> expression.p, stmt |-> None]
            ELSE IF ~peek_token_is(expression.p, "Semicolon")
            THEN [p |-> expression.p,
                  stmt |-> ExpressionStatement(p.current_token, expression.exp)]
            ELSE Bind(parser_next_token(expression.p),
                      LAMBDA p2 :
                         [p |-> p2,
                          stmt |-> IF p2.abort # "none" THEN None
                                   ELSE ExpressionStatement(p.current_token,
                                                            expression.exp)]))

(***************************************************************************)
(* Sources                                                                 *)
(***************************************************************************)
RECURSIVE Concat(_)
Concat(ss) == IF ss = <<>> THEN <<>> ELSE Head(ss) \o Concat(Tail(ss))

\* lexemes of free-form sources: "let ", "return ", "x", "5", "=", "!", "-", ";",
\* " ", "@", and the two bytes of U+00E9
Chunks == {<<108, 101, 116, 32>>, <<114, 101, 116, 117, 114, 110, 32>>, <<120>>, <<53>>,
           <<61>>, <<33>>, <<45>>, <<59>>, <<32>>, <<64>>, <<195, 169>>}

FreeSources ==
    {Concat(ss) : ss \in UNION {[1..n -> Chunks] : n \in 0..MaxChunks}}

\* identifiers "x", "y", "foobar", "_a"
Idents == {<<120>>, <<121>>, <<102, 111, 111, 98, 97, 114>>, <<95, 97>>}

\* integer literals with the decimal digits of the value each denotes: "5", "10",
\* "15", "010", "838383"
IntLits == {[lit |-> <<53>>, val |-> <<5>>], [lit |-> <<49, 48>>, val |-> <<1, 0>>],
            [lit |-> <<49, 53>>, val |-> <<1, 5>>], [lit |-> <<48, 49, 48>>, val |-> <<1, 0>>],
            [lit |-> <<56, 51, 56, 51, 56, 51>>, val |-> <<8, 3, 8, 3, 8, 3>>]}

\* whitespace between statements: " ", "\n", "\r\n\t"
Separators == {<<32>>, <<10>>, <<13, 10, 9>>}

\* prefix operators "!" and "-"
PrefixOps == {<<33>>, <<45>>}

\* "let <ident> = <int>;"
LetText(ident, int) == <<108, 101, 116, 32>> \o ident \o <<32, 61, 32>> \o int \o <<59>>

\* "return <int>;"
ReturnText(int) == <<114, 101, 116, 117, 114, 110, 32>> \o int \o <<59>>

RECURSIVE Join(_, _)
\* the texts of ss with the separator sep between them
Join(ss, sep) ==
    IF ss = <<>> THEN <<>>
    ELSE IF Len(ss) = 1 THEN ss[1]
    ELSE ss[1] \o sep \o Join(Tail(ss), sep)

\* the (ident, int) pairs of k let statements and a separator
LetPlans ==
    (UNION {[1..k -> (Idents \X {<<53>>, <<49, 48>>})] : k \in 0..MaxStmts})
        \X {<<32>>, <<10>>}

LetSource(plan) ==
    Join([i \in 1..Len(plan[1]) |-> LetText(plan[1][i][1], plan[1][i][2])], plan[2])

ReturnPlans ==
    (UNION {[1..k -> {<<53>>, <<49, 48>>, <<48, 49, 48>>}] : k \in 0..MaxStmts})
        \X Separators

ReturnSource(plan) ==
    Join([i \in 1..Len(plan[1]) |-> ReturnText(plan[1][i])], plan[2])

\* a chain of prefix operators, an integer literal, ";"
PrefixPlans == (UNION {[1..k -> PrefixOps] : k \in 1..MaxChain}) \X IntLits

PrefixSource(plan) == Concat(plan[1]) \o plan[2].lit \o <<59>>

\* "<ident>;" and "<int>;"
IdentSource(ident) == ident \o <<59>>

IntSource(int) == int.lit \o <<59>>

LetSources == {LetSource(plan) : plan \in LetPlans}

ReturnSources == {ReturnSource(plan) : plan \in ReturnPlans}

PrefixSources == {PrefixSource(plan) : plan \in PrefixPlans}

AtomSources == {IdentSource(ident) : ident \in Idents} \cup {IntSource(int) : int \in IntLits}

\* the single-character operators and delimiters
\* ';', '(', ')', ',', '+', '{', '}', '-', '/', '*', '<', '>'
SingleOps == {59, 40, 41, 44, 43, 123, 125, 45, 47, 42, 60, 62}

\* what may follow an operator: another operator byte, '=', '!', "5", "x", " ",
\* or the end of the input
Followers == {<<b>> : b \in SingleOps \cup {61, 33, 53, 120, 32}} \cup {<<>>}

OperatorSources == {<<b>> \o f : b \in SingleOps, f \in Followers}

\* the reserved words "fn", "let", "true", "false", "if", "else", "return" with
\* the token kind of each
Keywords ==
    {[word |-> <<102, 110>>, kind |-> "Function"],
     [word |-> <<108, 101, 116>>, kind |-> "Let"],
     [word |-> <<116, 114, 117, 101>>, kind |-> "True"],
     [word |-> <<102, 97, 108, 115, 101>>, kind |-> "False"],
     [word |-> <<105, 102>>, kind |-> "If"],
     [word |-> <<101, 108, 115, 101>>, kind |-> "Else"],
     [word |-> <<114, 101, 116, 117, 114, 110>>, kind |-> "Return"]}

\* the byte of a letter in the other case
SwapCase(b) == IF 97 <= b /\ b <= 122 THEN b - 32
               ELSE IF 65 <= b /\ b <= 90 THEN b + 32 ELSE b

\* words that are no reserved word: each reserved word in upper case, with its
\* first letter in upper case, without its last letter, followed by "s", "_"
\* or by itself, and "letter", "f", "i", "x"
NearKeywords ==
    UNION {{[i \in 1..Len(k.word) |-> SwapCase(k.word[i])],
            [i \in 1..Len(k.word) |-> IF i = 1 THEN SwapCase(k.word[i]) ELSE k.word[i]],
            SubSeq(k.word, 1, Len(k.word) - 1),
            k.word \o <<115>>,
            k.word \o <<95>>,
            <<95>> \o k.word,
            k.word \o k.word} : k \in Keywords}
    \cup {<<108, 101, 116, 116, 101, 114>>, <<102>>, <<105>>, <<120>>}

Words == {k.word : k \in Keywords} \cup NearKeywords

\* a word alone, or followed by " x"
WordSources == Words \cup {w \o <<32, 120>> : w \in Words}

\* digit runs "5", "10", "007", "1234567890"
DigitRuns == {<<53>>, <<49, 48>>, <<48, 48, 55>>, <<49, 50, 51, 52, 53, 54, 55, 56, 57, 48>>}

\* what may end a digit run: ".5", "e3", "E3", "-1", "+1", "x", "_", " 7", ";",
\* or the end of the input
RunEnders == {<<46, 53>>, <<101, 51>>, <<69, 51>>, <<45, 49>>, <<43, 49>>, <<120>>, <<95>>,
              <<32, 55>>, <<59>>, <<>>}

\* a digit run and what ends it, alone or after a sign
NumberSources ==
    {sign \o run \o ender : sign \in {<<>>, <<45>>, <<43>>}, run \in DigitRuns,
                            ender \in RunEnders}

\* what stands in the place of "= <value>" in a let statement without '=', with
\* the kind of its first token: "5", "10", "y", "-5", "== 5", and nothing
NoAssignTails ==
    {[text |-> <<32, 53>>, kind |-> "Int"], [text |-> <<32, 49, 48>>, kind |-> "Int"],
     [text |-> <<32, 121>>, kind |-> "Ident"], [text |-> <<32, 45, 53>>, kind |-> "Minus"],
     [text |-> <<32, 61, 61, 32, 53>>, kind |-> "Eq"], [text |-> <<>>, kind |-> "Semicolon"]}

LetNoAssignPlans == Idents \X NoAssignTails

\* "let <ident><tail>;"
LetNoAssignSource(plan) == <<108, 101, 116, 32>> \o plan[1] \o plan[2].text \o <<59>>

LetNoAssignSources == {LetNoAssignSource(plan) : plan \in LetNoAssignPlans}

\* integer literals around i64::MAX with the value each denotes, if it has one:
\* "9223372036854775807", "09223372036854775807", "9223372036854775806",
\* "999999999999999999", and "9223372036854775808", "9223372036854775810",
\* "10000000000000000000", "18446744073709551615", "99999999999999999999"
BigIntLits ==
    {[lit |-> <<57, 50, 50, 51, 51, 55, 50, 48, 51, 54, 56, 53, 52, 55, 55, 53, 56, 48, 55>>,
      value |-> [some |-> TRUE,
                 val |-> <<9, 2, 2, 3, 3, 7, 2, 0, 3, 6, 8, 5, 4, 7, 7, 5, 8, 0, 7>>]],
     [lit |-> <<48, 57, 50, 50, 51, 51, 55, 50, 48, 51, 54, 56, 53, 52, 55, 55, 53, 56, 48,
                55>>,
      value |-> [some |-> TRUE,
                 val |-> <<9, 2, 2, 3, 3, 7, 2, 0, 3, 6, 8, 5, 4, 7, 7, 5, 8, 0, 7>>]],
     [lit |-> <<57, 50, 50, 51, 51, 55, 50, 48, 51, 54, 56, 53, 52, 55, 55, 53, 56, 48, 54>>,
      value |-> [some |-> TRUE,
                 val |-> <<9, 2, 2, 3, 3, 7, 2, 0, 3, 6, 8, 5, 4, 7, 7, 5, 8, 0, 6>>]],
     [lit |-> <<57, 57, 57, 57, 57, 57, 57, 57, 57, 57, 57, 57, 57, 57, 57, 57, 57, 57>>,
      value |-> [some |-> TRUE,
                 val |-> <<9, 9, 9, 9, 9, 9, 9, 9, 9, 9, 9, 9, 9, 9, 9, 9, 9, 9>>]],
     [lit |-> <<57, 50, 50, 51, 51, 55, 50, 48, 51, 54, 56, 53, 52, 55, 55, 53, 56, 48, 56>>,
      value |-> [some |-> FALSE]],
     [lit |-> <<57, 50, 50, 51, 51, 55, 50, 48, 51, 54, 56, 53, 52, 55, 55, 53, 56, 49, 48>>,
      value |-> [some |-> FALSE]],
     [lit |-> <<49, 48, 48, 48, 48, 48, 48, 48, 48, 48, 48, 48, 48, 48, 48, 48, 48, 48, 48,
                48>>,
      value |-> [some |-> FALSE]],
     [lit |-> <<49, 56, 52, 52, 54, 55, 52, 52, 48, 55, 51, 55, 48, 57, 53, 53, 49, 54, 49,
                53>>,
      value |-> [some |-> FALSE]],
     [lit |-> <<57, 57, 57, 57, 57, 57, 57, 57, 57, 57, 57, 57, 57, 57, 57, 57, 57, 57, 57,
                57>>,
      value |-> [some |-> FALSE]]}

\* the integer literals of expression statements, small and large
IntAtoms == {[lit |-> n.lit, value |-> [some |-> TRUE, val |-> n.val]] : n \in IntLits}
            \cup BigIntLits

\* "<int>;"
BigIntSources == {n.lit \o <<59>> : n \in BigIntLits}

\* the operand of an expression: an identifier or an integer literal
ExprAtoms == {[ident |-> TRUE, lit |-> i, value |-> [some |-> FALSE]] : i \in Idents}
             \cup {[ident |-> FALSE, lit |-> n.lit, value |-> n.value] : n \in IntAtoms}

\* a chain of prefix operators, an operand, and whether a ';' follows
ExprPlans ==
    (UNION {[1..k -> PrefixOps] : k \in 0..MaxChain}) \X ExprAtoms \X BOOLEAN

\* the expression alone
ExprText(plan) == Concat(plan[1]) \o plan[2].lit

ExprSource(plan) == ExprText(plan) \o (IF plan[3] THEN <<59>> ELSE <<>>)

ExprSources == {ExprSource(plan) : plan \in ExprPlans}

\* statements that fail to parse: "let;", "let = ", "let 5 ", ";", "=", ")", "fn",
\* "== "
FailingTexts ==
    {<<108, 101, 116, 59>>, <<108, 101, 116, 32, 61, 32>>, <<108, 101, 116, 32, 53, 32>>,
     <<59>>, <<61>>, <<41>>, <<102, 110>>, <<61, 61, 32>>}

\* well-formed statements with the kind of each: "let y = 10;", "return 5;", "x;",
\* "5;", "-5;"
GoodStatements ==
    {[text |-> <<108, 101, 116, 32, 121, 32, 61, 32, 49, 48, 59>>, kind |-> "Let"],
     [text |-> <<114, 101, 116, 117, 114, 110, 32, 53, 59>>, kind |-> "Return"],
     [text |-> <<120, 59>>, kind |-> "Identifier"],
     [text |-> <<53, 59>>, kind |-> "IntegerLiteral"],
     [text |-> <<45, 53, 59>>, kind |-> "PrefixExpression"]}

\* a failing statement and the well-formed statements after it
FailThenGoodPlans ==
    FailingTexts \X (UNION {[1..k -> GoodStatements] : k \in 1..MaxStmts})

FailThenGoodSource(plan) ==
    plan[1] \o <<32>> \o Join([i \in 1..Len(plan[2]) |-> plan[2][i].text], <<32>>)

FailThenGoodSources == {FailThenGoodSource(plan) : plan \in FailThenGoodPlans}

\* what stands between '=' (or "return") and the ';': nothing, "5", "@", "let",
\* "return", "let y = 5", "! ) fn", "x + y", "==", "= =", a NUL byte
SkippedTexts ==
    {<<>>, <<53>>, <<64>>, <<108, 101, 116>>, <<114, 101, 116, 117, 114, 110>>,
     <<108, 101, 116, 32, 121, 32, 61, 32, 53>>, <<33, 32, 41, 32, 102, 110>>,
     <<120, 32, 43, 32, 121>>, <<61, 61>>, <<61, 32, 61>>, <<0>>}

\* "let x = <skipped>;"
LetSkipSource(skipped) == <<108, 101, 116, 32, 120, 32, 61, 32>> \o skipped \o <<59>>

\* "return <skipped>;"
ReturnSkipSource(skipped) == <<114, 101, 116, 117, 114, 110, 32>> \o skipped \o <<59>>

SkipSources ==
    {LetSkipSource(t) : t \in SkippedTexts} \cup {ReturnSkipSource(t) : t \in SkippedTexts}

\* sources with a NUL byte: "\0", "\0\0", "x\0", "x\0y", "5;\0 6;",
\* "let a = 1;\0let b = 2;"
NulSources ==
    {<<0>>, <<0, 0>>, <<120, 0>>, <<120, 0, 121>>, <<53, 59, 0, 32, 54, 59>>,
     <<108, 101, 116, 32, 97, 32, 61, 32, 49, 59, 0,
       108, 101, 116, 32, 98, 32, 61, 32, 50, 59>>}

Sources ==
    FreeSources \cup LetSources \cup ReturnSources \cup PrefixSources \cup AtomSources
    \cup OperatorSources \cup WordSources \cup NumberSources \cup LetNoAssignSources
    \cup BigIntSources \cup ExprSources \cup FailThenGoodSources \cup SkipSources
    \cup NulSources

\* the token of a prefix operator
PrefixToken(op) ==
    [token_type |-> IF op = <<33>> THEN "Bang" ELSE "Minus", literal |-> op]

(***************************************************************************)
(* Programs built by hand, as ast.rs tests::test_string builds one         *)
(***************************************************************************)
IdentToken(name) == [token_type |-> "Ident", literal |-> name]

IntToken(lit) == [token_type |-> "Int", literal |-> lit]

\* expressions with the text each stands for: anotherVar, 5, 10 written "010",
\* 9223372036854775807, (-5), (!(-x))
PrintExprs ==
    {[exp |-> IdentifierStruct(IdentToken(<<97, 110, 111, 116, 104, 101, 114, 86, 97, 114>>),
                               <<97, 110, 111, 116, 104, 101, 114, 86, 97, 114>>),
      text |-> <<97, 110, 111, 116, 104, 101, 114, 86, 97, 114>>],
     [exp |-> IntegerLiteralStruct(IntToken(<<53>>), [some |-> TRUE, val |-> <<5>>]),
      text |-> <<53>>],
     [exp |-> IntegerLiteralStruct(IntToken(<<48, 49, 48>>),
                                   [some |-> TRUE, val |-> <<1, 0>>]),
      text |-> <<49, 48>>],
     [exp |-> PrefixExpressionStruct(
                 PrefixToken(<<45>>), <<45>>,
                 IntegerLiteralStruct(IntToken(<<53>>), [some |-> TRUE, val |-> <<5>>])),
      text |-> <<40, 45, 53, 41>>],
     [exp |-> PrefixExpressionStruct(
                 PrefixToken(<<33>>), <<33>>,
                 PrefixExpressionStruct(PrefixToken(<<45>>), <<45>>,
                                        IdentifierStruct(IdentToken(<<120>>), <<120>>))),
      text |-> <<40, 33, 40, 45, 120, 41, 41>>]}

\* Option<Expression> values: Some of the expressions above, None, and Some of
\* an integer literal that has no value
OptionExprs ==
    {pe.exp : pe \in PrintExprs}
    \cup {None,
          IntegerLiteralStruct(IntToken(<<57, 57, 57, 57, 57, 57, 57, 57, 57, 57, 57, 57, 57,
                                          57, 57, 57, 57, 57, 57, 57>>), [some |-> FALSE])}

\* names "myVar" and "x"
PrintNames == {<<109, 121, 86, 97, 114>>, <<120>>}

LetKeywordToken == [token_type |-> "Let", literal |-> <<108, 101, 116>>]

ReturnKeywordToken == [token_type |-> "Return", literal |-> <<114, 101, 116, 117, 114, 110>>]

StringStatements ==
    {LetStatement(LetKeywordToken, IdentifierStruct(IdentToken(n), n), v) :
        n \in PrintNames, v \in OptionExprs}
    \cup {ReturnStatement(ReturnKeywordToken, v) : v \in OptionExprs}
    \cup {ExpressionStatement(IF v.kind = "None" THEN IdentToken(<<120>>) ELSE v.token, v) :
            v \in OptionExprs}

StringPrograms == UNION {[1..k -> StringStatements] : k \in 0..MaxStmts}

(***************************************************************************)
(* State machine                                                           *)
(***************************************************************************)
\* the Parser's fields as a parser value
P == [l |-> l, current_token |-> current_token, peek_token |-> peek_token,
      errors |-> errors, abort |-> abort]

SetP(p) ==
    /\ l' = p.l
    /\ current_token' = p.current_token
    /\ peek_token' = p.peek_token
    /\ errors' = p.errors
    /\ abort' = p.abort

CursorInBounds == l.read_position <= Len(input) + MaxOverrun

\* Lexer::new has run and the client is either a token loop (repl.rs) or a
\* Parser; or the client holds a Program built by hand and calls its string()
Init ==
    /\ \/ /\ input \in Sources
          /\ program = <<>>
          /\ pc \in {"lex", "new"}
       \/ /\ input = <<>>
          /\ program \in StringPrograms
          /\ pc = "string"
    /\ l = new_lexer
    /\ tok = NoToken
    /\ current_token = NoToken
    /\ peek_token = NoToken
    /\ errors = <<>>
    /\ statement = None
    /\ let_token = NoToken
    /\ statement_name = None
    /\ out = <<>>
    /\ si = 0
    /\ abort = "none"

\* one l.next_token() call of a token loop
LexNextToken ==
    /\ pc = "lex"
    /\ abort = "none"
    /\ CursorInBounds
    /\ \E r \in {next_token(l)} :
          /\ l' = r.l
          /\ tok' = r.tok
          /\ abort' = IF r.panic THEN "from_utf8" ELSE "none"
    /\ UNCHANGED <<out, si, pc, input, current_token, peek_token, errors, program, statement,
                   let_token, statement_name>>

\* Parser::new: two tokens are pulled
ParserNew ==
    /\ pc = "new"
    /\ \E r1 \in {next_token(l)} :
          IF r1.panic
          THEN /\ l' = r1.l /\ abort' = "from_utf8" /\ pc' = "panic"
               /\ UNCHANGED <<current_token, peek_token>>
          ELSE \E r2 \in {next_token(r1.l)} :
                  IF r2.panic
                  THEN /\ l' = r2.l /\ abort' = "from_utf8" /\ pc' = "panic"
                       /\ current_token' = r1.tok
                       /\ UNCHANGED peek_token
                  ELSE /\ l' = r2.l /\ abort' = "none" /\ pc' = "loop"
                       /\ current_token' = r1.tok
                       /\ peek_token' = r2.tok
    /\ UNCHANGED <<out, si, input, tok, errors, program, statement, let_token, statement_name>>

\* parse_program: the loop condition fails and the Program is returned
ParseProgramReturn ==
    /\ pc = "loop"
    /\ cur_token_is(P, "Eof")
    /\ pc' = "done"
    /\ UNCHANGED <<out, si, input, l, tok, current_token, peek_token, errors, program, statement,
                   let_token, statement_name, abort>>

\* parse_let_statement up to its skip loop
ParseLetStatement ==
    /\ pc = "loop"
    /\ cur_token_is(P, "Let")
    /\ CursorInBounds
    /\ let_token' = current_token
    /\ \E e1 \in {expect_peek(P, "Ident")} :
          IF e1.p.abort # "none"
          THEN SetP(e1.p) /\ pc' = "panic" /\ UNCHANGED <<statement, statement_name>>
          ELSE IF ~e1.ok
          THEN SetP(e1.p) /\ pc' = "advance" /\ statement' = None
               /\ UNCHANGED statement_name
          ELSE /\ statement_name' = IdentifierStruct(e1.p.current_token,
                                                     e1.p.current_token.literal)
               /\ \E e2 \in {expect_peek(e1.p, "Assign")} :
                     IF e2.p.abort # "none"
                     THEN SetP(e2.p) /\ pc' = "panic" /\ UNCHANGED statement
                     ELSE IF ~e2.ok
                     THEN SetP(e2.p) /\ pc' = "advance" /\ statement' = None
                     ELSE SetP(e2.p) /\ pc' = "let_skip" /\ UNCHANGED statement
    /\ UNCHANGED <<out, si, input, tok, program>>

\* one iteration of `while !self.cur_token_is(TokenType::Semicolon)`
SkipToSemicolon ==
    /\ pc \in {"let_skip", "return_skip"}
    /\ ~cur_token_is(P, "Semicolon")
    /\ CursorInBounds
    /\ \E p \in {parser_next_token(P)} :
          SetP(p) /\ pc' = IF p.abort # "none" THEN "panic" ELSE pc
    /\ UNCHANGED <<out, si, input, tok, program, statement, let_token, statement_name>>

\* parse_let_statement consuming the semicolon after its loop
LetStatementReturn_advances ==
    /\ pc = "let_skip"
    /\ cur_token_is(P, "Semicolon")
    /\ CursorInBounds
    /\ statement' = LetStatement(let_token, statement_name, None)
    /\ \E p \in {parser_next_token(P)} :
          SetP(p) /\ pc' = IF p.abort # "none" THEN "panic" ELSE "advance"
    /\ UNCHANGED <<out, si, input, tok, program, let_token, statement_name>>

\* parse_let_statement after its loop
LetStatementReturn ==
    /\ pc = "let_skip"
    /\ cur_token_is(P, "Semicolon")
    /\ statement' = LetStatement(let_token, statement_name, None)
    /\ pc' = "advance"
    /\ UNCHANGED <<out, si, input, l, tok, current_token, peek_token, errors, program,
                   let_token, statement_name, abort>>

\* parse_return_statement up to its skip loop
ParseReturnStatement ==
    /\ pc = "loop"
    /\ cur_token_is(P, "Return")
    /\ CursorInBounds
    /\ let_token' = current_token
    /\ \E p \in {parser_next_token(P)} :
          SetP(p) /\ pc' = IF p.abort # "none" THEN "panic" ELSE "return_skip"
    /\ UNCHANGED <<out, si, input, tok, program, statement, statement_name>>

\* parse_return_statement building the statement from the token it stopped on
ReturnStatementReturn_current_token ==
    /\ pc = "return_skip"
    /\ cur_token_is(P, "Semicolon")
    /\ statement' = ReturnStatement(current_token, None)
    /\ pc' = "advance"
    /\ UNCHANGED <<out, si, input, l, tok, current_token, peek_token, errors, program,
                   let_token, statement_name, abort>>

\* parse_return_statement after its loop
ReturnStatementReturn ==
    /\ pc = "return_skip"
    /\ cur_token_is(P, "Semicolon")
    /\ statement' = ReturnStatement(let_token, None)
    /\ pc' = "advance"
    /\ UNCHANGED <<out, si, input, l, tok, current_token, peek_token, errors, program,
                   let_token, statement_name, abort>>

\* parse_statement's default arm
ParseExpressionStatement ==
    /\ pc = "loop"
    /\ ~cur_token_is(P, "Eof")
    /\ ~cur_token_is(P, "Let")
    /\ ~cur_token_is(P, "Return")
    /\ CursorInBounds
    /\ \E r \in {parse_expression_statement(P)} :
          /\ SetP(r.p)
          /\ statement' = r.stmt
          /\ pc' = IF r.p.abort # "none" THEN "panic" ELSE "advance"
    /\ UNCHANGED <<out, si, input, tok, program, let_token, statement_name>>

\* parse_program, lines 78-81: push the statement if there is one, next_token
ParseProgramAdvance ==
    /\ pc = "advance"
    /\ CursorInBounds
    /\ program' = IF statement.kind # "None" THEN Append(program, statement) ELSE program
    /\ \E p \in {parser_next_token(P)} :
          SetP(p) /\ pc' = IF p.abort # "none" THEN "panic" ELSE "loop"
    /\ UNCHANGED <<out, si, input, tok, statement, let_token, statement_name>>

\* the client calls string() on the Program parse_program has returned
ParsedProgramString ==
    /\ pc = "done"
    /\ pc' = "string"
    /\ out' = <<>>
    /\ si' = 0
    /\ UNCHANGED <<input, l, tok, current_token, peek_token, errors, program, statement,
                   let_token, statement_name, abort>>

\* Program::string: one call of the for_each closure
StatementString ==
    /\ pc = "string"
    /\ abort = "none"
    /\ si < Len(program)
    /\ \E r \in {statement_string(program[si + 1])} :
          IF r.panic
          THEN abort' = "expect_none" /\ UNCHANGED <<out, si>>
          ELSE out' = out \o r.str /\ si' = si + 1 /\ UNCHANGED abort
    /\ UNCHANGED <<pc, input, l, tok, current_token, peek_token, errors, program, statement,
                   let_token, statement_name>>

\* Program::string returns `out`
ProgramStringReturn ==
    /\ pc = "string"
    /\ abort = "none"
    /\ si = Len(program)
    /\ pc' = "string_done"
    /\ UNCHANGED <<out, si, input, l, tok, current_token, peek_token, errors, program,
                   statement, let_token, statement_name, abort>>

Next ==
    \/ LexNextToken
    \/ ParserNew
    \/ ParseProgramReturn
    \/ ParseLetStatement
    \/ SkipToSemicolon
    \/ LetStatementReturn
    \/ ParseReturnStatement
    \/ ReturnStatementReturn
    \/ ParseExpressionStatement
    \/ ParseProgramAdvance
    \/ ParsedProgramString
    \/ StatementString
    \/ ProgramStringReturn

Spec == Init /\ [][Next]_vars

\* the client runs the code to its end: a call that can take its next step takes it
FairSpec == Spec /\ WF_vars(Next)

(***************************************************************************)
(* What the source text says, read off the input alone                     *)
(***************************************************************************)
Whitespace == {32, 9, 10, 13}

\* '=', '!', ';', '(', ')', ',', '+', '{', '}', '-', '/', '*', '<', '>'
OperatorBytes == {61, 33, 59, 40, 41, 44, 43, 123, 125, 45, 47, 42, 60, 62}

LetterBytes == (97..122) \cup (65..90) \cup {95}

DigitBytes == 48..57

\* the byte at Rust index i, 0 past the end
ByteAt(i) == IF i < Len(input) THEN input[i + 1] ELSE 0

RECURSIVE RunEnd(_, _)
\* the first index at or after i whose byte is not in class
RunEnd(i, class) ==
    IF i < Len(input) /\ input[i + 1] \in class THEN RunEnd(i + 1, class) ELSE i

\* where the token of the next call starts: the cursor, moved over whitespace
TokenStart == RunEnd(l.position, Whitespace)

\* a step of the token loop: one call of Lexer::next_token
LexCall == pc = "lex" /\ <<l, tok, abort>>' # <<l, tok, abort>>

(***************************************************************************)
(* C1                                                                      *)
(***************************************************************************)
\* C1: parse_program never panics: whatever tokens the lexer delivers, the
\* parser reaches no abort of its own.
C1_ParserNeverPanics == abort # "unwrap_none"

(***************************************************************************)
(* C2                                                                      *)
(***************************************************************************)
\* C2: parse_program terminates on every finite source: a Parser built over the
\* input eventually leaves parse_program (here: by returning or at least by
\* aborting), whether or not its let/return statements end in a semicolon.
C2_ParseTerminates == (pc = "new") ~> (pc \in {"done", "panic"})

(***************************************************************************)
(* C3                                                                      *)
(***************************************************************************)
\* C3: the lexer raises no error on any byte: when the token starts at a byte
\* that is no whitespace, operator, letter, underscore, digit or NUL (bytes
\* 128..255 included), next_token returns Illegal with that one byte as its
\* literal and the cursor moves one byte on.
C3_OtherByteIsIllegal ==
    [][LexCall =>
         LET i == TokenStart
             b == ByteAt(i)
         IN (b \notin Whitespace \cup OperatorBytes \cup LetterBytes \cup DigitBytes
                        \cup {0})
            => /\ abort' = "none"
               /\ tok' = [token_type |-> "Illegal", literal |-> <<b>>]
               /\ l'.position = i + 1]_vars

(***************************************************************************)
(* C4                                                                      *)
(***************************************************************************)
\* C4: every next_token call returns exactly one token and moves the cursor
\* forward (so at most Len(input) calls start inside the input), and once the
\* cursor has passed the last byte every further call returns Eof, however
\* often it is called.
C4_LexingTerminatesIdempotent ==
    [][LexCall =>
         /\ abort' = "none"
         /\ tok'.token_type \in TokenType
         /\ l'.position > l.position
         /\ l.position >= Len(input) => tok'.token_type = "Eof"]_vars

(***************************************************************************)
(* C5                                                                      *)
(***************************************************************************)
\* C5: '=' or '!' followed by '=' is one token Eq or NotEq with the two-byte
\* literal and both bytes consumed; followed by anything else (the end of the
\* input included) it is Assign or Bang with the one-byte literal and one byte
\* consumed.
C5_TwoCharOperators ==
    [][LexCall =>
         LET i == TokenStart
             b == ByteAt(i)
             n == ByteAt(i + 1)
             double == IF b = 61 THEN "Eq" ELSE "NotEq"
             single == IF b = 61 THEN "Assign" ELSE "Bang"
         IN (b \in {61, 33})
            => /\ abort' = "none"
               /\ n = 61 => /\ tok' = [token_type |-> double, literal |-> <<b, 61>>]
                            /\ l'.position = i + 2
               /\ n # 61 => /\ tok' = [token_type |-> single, literal |-> <<b>>]
                            /\ l'.position = i + 1]_vars

\* a "!=" has been lexed as one token, and a lone "=" at the end of the input
\* as Assign is covered by the same check
C5_Witness ==
    /\ pc = "lex"
    /\ tok = [token_type |-> "NotEq", literal |-> <<33, 61>>]
    /\ l.position >= 2
    /\ SubSeq(input, l.position - 1, l.position) = <<33, 61>>

(***************************************************************************)
(* C6                                                                      *)
(***************************************************************************)
\* C6 as claimed: a token that starts at a letter or underscore is the maximal
\* run of letters, digits and underscores from there ("x5" is one Ident), its
\* kind the keyword lookup of that run.
C6_IdentifierTakesDigits ==
    [][LexCall =>
         LET i == TokenStart
             j == RunEnd(i, LetterBytes \cup DigitBytes)
         IN ByteAt(i) \in LetterBytes
            => /\ tok'.literal = SubSeq(input, i + 1, j)
               /\ tok'.token_type = lookup_ident(SubSeq(input, i + 1, j))
               /\ l'.position = j]_vars

\* C6 as amended: a token that starts at a letter or underscore is the maximal
\* run of letters and underscores from there; a digit ends it ("x5" is the
\* Ident "x" and then the Int "5"); its kind is the keyword lookup of that run
\* and the cursor is left on the byte that ended the run.
C6_IdentifierIsLetterRun ==
    [][LexCall =>
         LET i == TokenStart
             j == RunEnd(i, LetterBytes)
         IN ByteAt(i) \in LetterBytes
            => /\ abort' = "none"
               /\ tok'.literal = SubSeq(input, i + 1, j)
               /\ tok'.token_type = lookup_ident(SubSeq(input, i + 1, j))
               /\ l'.position = j]_vars

\* an identifier has been lexed that a digit ended
C6_Witness ==
    /\ pc = "lex"
    /\ tok.token_type = "Ident"
    /\ l.position < Len(input)
    /\ input[l.position + 1] \in DigitBytes
    /\ input[l.position] \in LetterBytes

(***************************************************************************)
(* C7 - C10: whole programs                                                *)
(***************************************************************************)
\* the parse of this input has returned normally, or it can still take a step
\* without having run past the end of the input: it neither panics nor hangs
ParseReturns == pc # "panic" /\ (pc = "done" \/ ENABLED Next)

\* the Parser client runs (not the token loop, not the string() client)
Parsing == pc \notin {"lex", "string", "string_done"}

LetBytes == <<108, 101, 116>>

ReturnBytes == <<114, 101, 116, 117, 114, 110>>

\* C7: for a source of k >= 0 statements "let <identifier> = <integer>;"
\* separated by whitespace, parse_program returns exactly k statements, all Let
\* with token literal "let", their names the k identifiers in source order, and
\* no errors.
C7_LetPrograms ==
    \A plan \in (IF Parsing /\ input \in LetSources THEN LetPlans ELSE {}) :
        (input = LetSource(plan))
        => /\ ParseReturns
           /\ pc = "done"
              => /\ errors = <<>>
                 /\ Len(program) = Len(plan[1])
                 /\ \A i \in 1..Len(program) :
                       /\ program[i].kind = "Let"
                       /\ program[i].token.literal = LetBytes
                       /\ program[i].name.kind = "Identifier"
                       /\ program[i].name.value = plan[1][i][1]

\* two let statements have been parsed to the end
C7_Witness ==
    /\ pc = "done"
    /\ Len(program) = 2
    /\ input \in LetSources
    /\ \E plan \in LetPlans : Len(plan[1]) = 2 /\ input = LetSource(plan)

\* C8: for a source of k >= 0 statements "return <integer>;" separated by
\* whitespace, parse_program returns exactly k statements, all Return with
\* token literal "return", and no errors.
C8_ReturnPrograms ==
    \A plan \in (IF Parsing /\ input \in ReturnSources THEN ReturnPlans ELSE {}) :
        (input = ReturnSource(plan))
        => /\ ParseReturns
           /\ pc = "done"
              => /\ errors = <<>>
                 /\ Len(program) = Len(plan[1])
                 /\ \A i \in 1..Len(program) :
                       /\ program[i].kind = "Return"
                       /\ program[i].token.literal = ReturnBytes

\* two return statements have been parsed to the end
C8_Witness ==
    /\ pc = "done"
    /\ Len(program) = 2
    /\ input \in ReturnSources
    /\ \E plan \in ReturnPlans : Len(plan[1]) = 2 /\ input = ReturnSource(plan)

RECURSIVE PrefixTree(_, _)
\* the expression a chain of prefix operators in front of an integer denotes:
\* the first operator applied to the tree of the rest
PrefixTree(ops, int) ==
    IF ops = <<>>
    THEN [kind |-> "IntegerLiteral",
          token |-> [token_type |-> "Int", literal |-> int.lit],
          value |-> [some |-> TRUE, val |-> int.val]]
    ELSE [kind |-> "PrefixExpression", token |-> PrefixToken(ops[1]),
          operator |-> ops[1], right |-> PrefixTree(Tail(ops), int)]

\* C9: for a source "<op>...<op><integer>;" with operators '!' and '-',
\* parse_program yields exactly 1 Expression statement and no errors; it wraps
\* the PrefixExpression of the first operator, whose operand is the parse of the
\* rest, down to the IntegerLiteral of the value: "!-5;" is (!(-5)).
C9_PrefixExpressions ==
    \A plan \in (IF Parsing /\ input \in PrefixSources THEN PrefixPlans ELSE {}) :
        (input = PrefixSource(plan))
        => /\ ParseReturns
           /\ pc = "done"
              => /\ errors = <<>>
                 /\ program = <<[kind |-> "Expression",
                                 token |-> PrefixToken(plan[1][1]),
                                 expression |-> PrefixTree(plan[1], plan[2])]>>

\* a chain of two different prefix operators has been parsed to the end
C9_Witness ==
    /\ pc = "done"
    /\ Len(program) = 1
    /\ input \in PrefixSources
    /\ \E plan \in PrefixPlans :
          /\ Len(plan[1]) = 2
          /\ plan[1][1] # plan[1][2]
          /\ input = PrefixSource(plan)

\* C10: for a source "<identifier>;" or "<integer>;" (the integer in range),
\* parse_program yields exactly 1 Expression statement and no errors; it wraps
\* the Identifier whose value and token literal are the identifier text, or the
\* IntegerLiteral whose value is the integer the literal denotes.
C10_AtomStatements ==
    /\ \A ident \in Idents :
          (Parsing /\ input = IdentSource(ident))
          => /\ ParseReturns
             /\ pc = "done"
                => /\ errors = <<>>
                   /\ Len(program) = 1
                   /\ program[1].kind = "Expression"
                   /\ program[1].expression.kind = "Identifier"
                   /\ program[1].expression.value = ident
                   /\ program[1].expression.token.literal = ident
    /\ \A int \in IntLits :
          (Parsing /\ input = IntSource(int))
          => /\ ParseReturns
             /\ pc = "done"
                => /\ errors = <<>>
                   /\ Len(program) = 1
                   /\ program[1].kind = "Expression"
                   /\ program[1].expression.kind = "IntegerLiteral"
                   /\ program[1].expression.value = [some |-> TRUE, val |-> int.val]
                   /\ program[1].expression.token.literal = int.lit

\* an integer statement whose literal is not the decimal print of its value
\* ("010") has been parsed to the end
C10_Witness ==
    /\ pc = "done"
    /\ Len(program) = 1
    /\ input = <<48, 49, 48, 59>>
    /\ program[1].expression.kind = "IntegerLiteral"

SyntaxErrors == {"ExpectedNextToken", "NoPrefixParseFn"}

\* a step of parse_statement in which the statement fails to parse: it records
\* an expected-token mismatch or a missing prefix handler
StatementFails ==
    /\ pc = "loop"
    /\ Len(errors') > Len(errors)
    /\ \E i \in (Len(errors) + 1)..Len(errors') : errors'[i].error \in SyntaxErrors

\* what a statement is: Let, Return, or the kind of the expression it wraps
StatementKind(s) == IF s.kind = "Expression" THEN s.expression.kind ELSE s.kind

\* C12: a statement that fails to parse is omitted from the Program and does
\* not abort the parse: parse_statement returns nothing for it and the loop goes
\* on, so the well-formed statements after it are the last statements of the
\* Program, in source order.
C12_FailingStatementOmitted ==
    /\ [][StatementFails => (abort' = "none" /\ statement' = None)]_vars
    /\ [](\A plan \in (IF Parsing /\ input \in FailThenGoodSources
                        THEN FailThenGoodPlans ELSE {}) :
             (input = FailThenGoodSource(plan))
             => /\ ParseReturns
                /\ pc = "done"
                   => /\ Len(program) >= Len(plan[2])
                      /\ \A i \in 1..Len(plan[2]) :
                            StatementKind(program[Len(program) - Len(plan[2]) + i])
                                = plan[2][i].kind)

(***************************************************************************)
(* C13                                                                     *)
(***************************************************************************)
IntAtomSources == {n.lit \o <<59>> : n \in IntAtoms}

\* C13: for a source "<digits>;": if the digits denote a value above
\* 9223372036854775807, exactly one "Could not parse ... as integer" error is
\* recorded and the Program still holds the Expression statement of an
\* IntegerLiteral without a value; if they denote a value in range (leading
\* zeros or not) no error is recorded and the value is the one denoted.
C13_IntegerRange ==
    \A n \in (IF Parsing /\ input \in IntAtomSources THEN IntAtoms ELSE {}) :
        (input = n.lit \o <<59>>)
        => /\ ParseReturns
           /\ pc = "done"
              => /\ program = <<ExpressionStatement(
                                   IntToken(n.lit),
                                   IntegerLiteralStruct(IntToken(n.lit), n.value))>>
                 /\ errors = IF n.value.some THEN <<>>
                             ELSE <<[error |-> "CouldNotParseInteger", literal |-> n.lit]>>

\* "9223372036854775808;" has been parsed to the end
C13_Witness ==
    /\ pc = "done"
    /\ input = <<57, 50, 50, 51, 51, 55, 50, 48, 51, 54, 56, 53, 52, 55, 55, 53, 56, 48, 56,
                 59>>
    /\ Len(errors) = 1
    /\ Len(program) = 1
    /\ ~program[1].expression.value.some

(***************************************************************************)
(* C14                                                                     *)
(***************************************************************************)
\* C14 as claimed: every token of kind Eof that next_token returns has the empty
\* string as its literal.
C14_EofLiteralEmpty ==
    [][(LexCall /\ abort' = "none" /\ tok'.token_type = "Eof") => tok'.literal = <<>>]_vars

\* C14 as amended: every token of kind Eof that next_token returns has the
\* one-character literal "\0", the NUL byte the lexer reads at the end of the
\* input (lexer.rs tests::test_next_token expects it).
C14_EofLiteralIsNul ==
    [][(LexCall /\ abort' = "none" /\ tok'.token_type = "Eof") => tok'.literal = <<0>>]_vars

\* the token loop has got Eof at the end of an input that is not empty
C14_Witness ==
    /\ pc = "lex"
    /\ tok = [token_type |-> "Eof", literal |-> <<0>>]
    /\ Len(input) > 0
    /\ l.position > Len(input)

(***************************************************************************)
(* C15                                                                     *)
(***************************************************************************)
\* the kind of each single-character operator and delimiter
SingleOpKind(b) ==
    CASE b = 59 -> "Semicolon"
      [] b = 40 -> "LParen"
      [] b = 41 -> "RParen"
      [] b = 44 -> "Comma"
      [] b = 43 -> "Plus"
      [] b = 123 -> "LBrace"
      [] b = 125 -> "RBrace"
      [] b = 45 -> "Minus"
      [] b = 47 -> "Slash"
      [] b = 42 -> "Asterisk"
      [] b = 60 -> "Lt"
      [] b = 62 -> "Gt"

\* C15: when the token starts at one of ';', '(', ')', ',', '+', '{', '}', '-',
\* '/', '*', '<', '>', whatever byte follows, next_token returns the token of
\* the fixed kind of that character with the character as its literal, and the
\* cursor moves one byte on.
C15_SingleCharOperators ==
    [][LexCall =>
         LET i == TokenStart
             b == ByteAt(i)
         IN (i < Len(input) /\ b \in SingleOps)
            => /\ abort' = "none"
               /\ tok' = [token_type |-> SingleOpKind(b), literal |-> <<b>>]
               /\ l'.position = i + 1
               /\ l'.ch = ByteAt(i + 1)]_vars

\* a '<' has been lexed as Lt with a '=' right behind it
C15_Witness ==
    /\ pc = "lex"
    /\ tok = [token_type |-> "Lt", literal |-> <<60>>]
    /\ l.position < Len(input)
    /\ input[l.position] = 60
    /\ input[l.position + 1] = 61

(***************************************************************************)
(* C16                                                                     *)
(***************************************************************************)
\* the kind the table of reserved words gives a word
KeywordKind(w) ==
    IF \E k \in Keywords : k.word = w
    THEN (CHOOSE k \in Keywords : k.word = w).kind
    ELSE "Ident"

\* C16: lookup_ident returns the keyword kind for exactly "fn", "let", "true",
\* "false", "if", "else", "return", and Ident for every other string: other
\* spellings in upper case, words that begin or end with a keyword ("letter"),
\* keywords cut short, the empty string; and the token of a word in the source
\* has that kind.
C16_KeywordLookup ==
    /\ [](\A w \in Words \cup {<<>>, <<53>>} : lookup_ident(w) = KeywordKind(w))
    /\ [][LexCall =>
            LET i == TokenStart
                j == RunEnd(i, LetterBytes)
            IN ByteAt(i) \in LetterBytes
               => tok'.token_type = KeywordKind(SubSeq(input, i + 1, j))]_vars

\* the word "letter" has been lexed as an identifier
C16_Witness ==
    /\ pc = "lex"
    /\ tok = [token_type |-> "Ident", literal |-> <<108, 101, 116, 116, 101, 114>>]

(***************************************************************************)
(* C17                                                                     *)
(***************************************************************************)
\* C17: a token that starts at a digit is the Int whose literal is the maximal
\* run of digits from there: a sign before it is a token of its own, a '.', an
\* 'e' or any other byte ends it, and the cursor is left on that byte.
C17_IntegerIsDigitRun ==
    [][LexCall =>
         LET i == TokenStart
             j == RunEnd(i, DigitBytes)
         IN ByteAt(i) \in DigitBytes
            => /\ abort' = "none"
               /\ tok' = [token_type |-> "Int", literal |-> SubSeq(input, i + 1, j)]
               /\ l'.position = j
               /\ l'.ch = ByteAt(j)]_vars

\* a digit run of more than one digit has been lexed that a '.' ended
C17_Witness ==
    /\ pc = "lex"
    /\ tok.token_type = "Int"
    /\ Len(tok.literal) > 1
    /\ l.position < Len(input)
    /\ input[l.position + 1] = 46

(***************************************************************************)
(* C18                                                                     *)
(***************************************************************************)
\* the text a Let statement stands for, when its value is one of PrintExprs:
\* "let <name> = <text of the value>;"
LetRendering(s) ==
    <<108, 101, 116, 32>> \o s.name.value \o <<32, 61, 32>>
        \o (CHOOSE pe \in PrintExprs : pe.exp = s.value).text \o <<59>>

\* a Let statement with a value whose text is known
PrintableLet(s) == s.kind = "Let" /\ \E pe \in PrintExprs : pe.exp = s.value

\* C18: Program.string() returns the strings of its statements concatenated in
\* statement order, and a Let statement with name n and value v contributes
\* "let n = v;": for a Program of such Let statements the result is the
\* concatenation of these texts.
C18_ProgramString ==
    (pc = "string_done")
    => /\ out = Concat([i \in 1..Len(program) |-> statement_string(program[i]).str])
       /\ (\A i \in 1..Len(program) : PrintableLet(program[i]))
          => out = Concat([i \in 1..Len(program) |-> LetRendering(program[i])])

\* string() has returned for a Program of two different Let statements, the
\* first one that of tests::test_string: "let myVar = anotherVar;"
C18_Witness ==
    /\ pc = "string_done"
    /\ Len(program) = 2
    /\ PrintableLet(program[1])
    /\ PrintableLet(program[2])
    /\ program[1] # program[2]
    /\ SubSeq(out, 1, 23) = <<108, 101, 116, 32, 109, 121, 86, 97, 114, 32, 61, 32, 97, 110,
                              111, 116, 104, 101, 114, 86, 97, 114, 59>>
    /\ Len(out) > 23

(***************************************************************************)
(* C19                                                                     *)
(***************************************************************************)
\* the token an operand is lexed to
AtomToken(atom) == IF atom.ident THEN IdentToken(atom.lit) ELSE IntToken(atom.lit)

RECURSIVE ExprTree(_, _)
\* the expression a chain of prefix operators in front of an operand denotes
ExprTree(ops, atom) ==
    IF ops = <<>>
    THEN IF atom.ident
         THEN [kind |-> "Identifier", token |-> AtomToken(atom), value |-> atom.lit]
         ELSE [kind |-> "IntegerLiteral", token |-> AtomToken(atom), value |-> atom.value]
    ELSE [kind |-> "PrefixExpression", token |-> PrefixToken(ops[1]),
          operator |-> ops[1], right |-> ExprTree(Tail(ops), atom)]

\* the errors an expression records: one for an integer out of range
ExprErrors(atom) ==
    IF ~atom.ident /\ ~atom.value.some
    THEN <<[error |-> "CouldNotParseInteger", literal |-> atom.lit]>>
    ELSE <<>>

\* C19: for an expression E of prefix operators, identifiers and integers, the
\* sources "E" and "E;" give the same Program, the one Expression statement of
\* E, and the same errors; and when parse_expression_statement has returned,
\* the current token is the ';' exactly when one followed the expression.
C19_SemicolonOptional ==
    \A plan \in (IF Parsing /\ input \in ExprSources THEN ExprPlans ELSE {}) :
        (input = ExprSource(plan))
        => /\ ParseReturns
           /\ pc = "advance" => (cur_token_is(P, "Semicolon") <=> plan[3])
           /\ pc = "done"
              => /\ program = <<[kind |-> "Expression",
                                 token |-> IF plan[1] = <<>> THEN AtomToken(plan[2])
                                           ELSE PrefixToken(plan[1][1]),
                                 expression |-> ExprTree(plan[1], plan[2])]>>
                 /\ errors = ExprErrors(plan[2])

\* "-5", without a semicolon, has been parsed to the end
C19_Witness ==
    /\ pc = "done"
    /\ input = <<45, 53>>
    /\ Len(program) = 1
    /\ program[1].expression.kind = "PrefixExpression"

(***************************************************************************)
(* C20                                                                     *)
(***************************************************************************)
PeekError(expected, got) ==
    [error |-> "ExpectedNextToken", expected |-> expected, got |-> got]

\* a step of parse_let_statement: expect_peek(Ident) and, if that succeeds,
\* expect_peek(Assign)
LetStep == pc = "loop" /\ cur_token_is(P, "Let") /\ pc' # pc

\* C20: expect_peek(kind) either advances or leaves the token window alone.  In
\* parse_let_statement: if the peek token is no Ident, one peek error (Ident,
\* kind of the peek token) is appended, current token, peek token and lexer stay
\* as they were and the statement is given up; otherwise the window moves on one
\* token of the lexer and nothing is appended, and the same holds of
\* expect_peek(Assign) from there.  (Where the lexer itself does not return a
\* token there is no window to speak of.)
C20_ExpectPeek ==
    [][LetStep =>
         IF peek_token.token_type # "Ident"
         THEN /\ errors' = Append(errors, PeekError("Ident", peek_token.token_type))
              /\ current_token' = current_token
              /\ peek_token' = peek_token
              /\ l' = l
              /\ statement' = None
              /\ pc' = "advance"
         ELSE LET r1 == next_token(l)
              IN \/ r1.panic
                 \/ IF r1.tok.token_type # "Assign"
                    THEN /\ errors' = Append(errors, PeekError("Assign", r1.tok.token_type))
                         /\ current_token' = peek_token
                         /\ peek_token' = r1.tok
                         /\ l' = r1.l
                         /\ statement' = None
                         /\ pc' = "advance"
                    ELSE LET r2 == next_token(r1.l)
                         IN \/ r2.panic
                            \/ /\ errors' = errors
                               /\ current_token' = r1.tok
                               /\ peek_token' = r2.tok
                               /\ l' = r2.l
                               /\ pc' = "let_skip"]_vars

\* expect_peek(Ident) has advanced and expect_peek(Assign) has then failed on an
\* Int: the identifier is the current token, the Int still the peek token
C20_Witness ==
    /\ pc = "advance"
    /\ statement = None
    /\ errors = <<PeekError("Assign", "Int")>>
    /\ current_token.token_type = "Ident"
    /\ peek_token.token_type = "Int"
    /\ let_token.token_type = "Let"

(***************************************************************************)
(* The lexer's token stream, read off the lexer alone                      *)
(***************************************************************************)
RECURSIVE LexerCalls(_, _, _)
\* the tokens next_token returns, call after call from lexer state lx, until the
\* lexer is in state target; ok is FALSE if it never is
LexerCalls(lx, toks, target) ==
    IF lx = target THEN [ok |-> TRUE, toks |-> toks]
    ELSE IF lx.position >= target.position THEN [ok |-> FALSE, toks |-> toks]
    ELSE Bind(next_token(lx),
              LAMBDA r : IF r.panic THEN [ok |-> FALSE, toks |-> toks]
                         ELSE LexerCalls(r.l, Append(toks, r.tok), target))

\* the tokens a lexer over the input has returned when it is in state lx
TokensUpTo(lx) == LexerCalls(new_lexer, <<>>, lx)

(***************************************************************************)
(* C21                                                                     *)
(***************************************************************************)
\* C21: after construction and after every next_token call, in the token loop
\* and under the Parser, read_position = position + 1; and no step moves
\* position backwards.
C21_CursorInvariant ==
    /\ [](l.read_position = l.position + 1)
    /\ [][l'.position >= l.position]_vars

\* the token loop has made calls up to and past the end of the input, one of
\* them with a lookahead that consumed nothing ("=" followed by no '=')
C21_Witness ==
    /\ pc = "lex"
    /\ Len(input) >= 2
    /\ input[1] = 61
    /\ input[2] # 61
    /\ l.position = Len(input) + 2

(***************************************************************************)
(* C22                                                                     *)
(***************************************************************************)
\* the Parser is constructed and has not panicked
WindowValid == pc \in {"loop", "let_skip", "return_skip", "advance", "done"}

\* the window is the last two tokens the lexer has returned
WindowIsLastTwo(s) ==
    /\ s.ok
    /\ Len(s.toks) >= 2
    /\ current_token = s.toks[Len(s.toks) - 1]
    /\ peek_token = s.toks[Len(s.toks)]

\* C22: Parser::new sets current and peek to the first and second token of the
\* lexer's stream; in every state of the Parser the peek token is the token the
\* lexer returned right after the current token and the last one it returned;
\* and a step that is one Parser::next_token takes exactly one token from the
\* lexer.
C22_LookaheadWindow ==
    /\ [](WindowValid => WindowIsLastTwo(TokensUpTo(l)))
    /\ [][(pc = "new" /\ pc' = "loop") => Len(TokensUpTo(l').toks) = 2]_vars
    /\ [][(pc \in {"let_skip", "return_skip", "advance"} /\ pc' \in {pc, "loop"}
            /\ l' # l)
           => Len(TokensUpTo(l').toks) = Len(TokensUpTo(l).toks) + 1]_vars

\* the Parser is back at the top of its loop with the fifth and sixth token of
\* the stream in its window
C22_Witness ==
    /\ pc = "loop"
    /\ Len(program) >= 1
    /\ Len(TokensUpTo(l).toks) = 6
    /\ current_token.token_type # "Eof"

(***************************************************************************)
(* C23                                                                     *)
(***************************************************************************)
\* the kinds with a prefix handler
PrefixKinds == {"Ident", "Int", "Bang", "Minus"}

\* a step of parse_expression_statement whose first token has no prefix
\* handler, up to the return of parse_expression_statement
NoPrefixStep ==
    /\ pc = "loop"
    /\ pc' = "advance"
    /\ current_token.token_type \notin PrefixKinds \cup {"Eof", "Let", "Return"}

\* C23: when parse_expression is entered on a token that is no Ident, Int, Bang
\* or Minus, exactly one "No prefix parse function found" error naming its kind
\* is appended, the window is not advanced (but for the ';' the statement then
\* takes), and at top level no statement is returned for the Program.
C23_NoPrefixHandler ==
    [][NoPrefixStep =>
         /\ errors' = Append(errors, [error |-> "NoPrefixParseFn",
                                      kind |-> current_token.token_type])
         /\ IF peek_token.token_type = "Semicolon"
            THEN current_token' = peek_token
            ELSE /\ current_token' = current_token
                 /\ peek_token' = peek_token
                 /\ l' = l
         /\ statement' = None]_vars

(***************************************************************************)
(* C24                                                                     *)
(***************************************************************************)
\* C24: what stands between '=' (or "return") and the next ';' is skipped: for
\* a source "let x = <tokens>;" or "return <tokens>;", whatever the tokens
\* (none, Illegal, an Eof from a NUL byte, further let and return keywords),
\* when the statement is returned the current token is the ';' and the
\* statement has no value; the Program is that one statement and there are no
\* errors.
C24_ValuesSkipped ==
    /\ (Parsing /\ input \in SkipSources)
       => /\ ParseReturns
          /\ errors = <<>>
          /\ (pc = "advance") => /\ cur_token_is(P, "Semicolon")
                                 /\ peek_token_is(P, "Eof")
                                 /\ statement.value = None
          /\ (pc = "done")
             => \/ /\ input \in {LetSkipSource(t) : t \in SkippedTexts}
                   /\ program = <<LetStatement(LetKeywordToken,
                                               IdentifierStruct(IdentToken(<<120>>), <<120>>),
                                               None)>>
                \/ /\ input \in {ReturnSkipSource(t) : t \in SkippedTexts}
                   /\ program = <<ReturnStatement(ReturnKeywordToken, None)>>
    /\ (pc = "advance" /\ statement.kind \in {"Let", "Return"})
       => (cur_token_is(P, "Semicolon") /\ statement.value = None)

\* "let x = let y = 5;" has been parsed to the end as one statement
C24_Witness ==
    /\ pc = "done"
    /\ input = LetSkipSource(<<108, 101, 116, 32, 121, 32, 61, 32, 53>>)
    /\ Len(program) = 1
    /\ errors = <<>>

(***************************************************************************)
(* C25                                                                     *)
(***************************************************************************)
\* every byte of the input is an ASCII character other than NUL
AsciiNoNul == \A i \in 1..Len(input) : 1 <= input[i] /\ input[i] <= 127

\* s without its space, tab, newline and carriage-return bytes
StripWhitespace(s) == SelectSeq(s, LAMBDA b : b \notin Whitespace)

\* the tokens of toks before the first Eof
BeforeEof(toks) ==
    LET eofs == {i \in 1..Len(toks) : toks[i].token_type = "Eof"}
    IN IF eofs = {} THEN toks
       ELSE SubSeq(toks, 1, (CHOOSE i \in eofs : \A j \in eofs : i <= j) - 1)

\* C25: for an ASCII input without NUL bytes, at every point of the token loop
\* the literals of the tokens returned so far (before the first Eof),
\* concatenated in order, are the input up to the cursor with its whitespace
\* bytes removed, hence the whole input without its whitespace once Eof is
\* returned; and the literal of the token just returned is the piece of the
\* input that ends at the cursor.
C25_NoTextLost ==
    (pc = "lex" /\ AsciiNoNul)
    => LET s == TokensUpTo(l)
           seen == IF l.position <= Len(input) THEN l.position ELSE Len(input)
       IN /\ abort = "none"
          /\ s.ok
          /\ Concat([i \in 1..Len(BeforeEof(s.toks)) |-> s.toks[i].literal])
                = StripWhitespace(SubSeq(input, 1, seen))
          /\ (tok.token_type \notin {"None", "Eof"})
             => tok.literal = SubSeq(input, l.position - Len(tok.literal) + 1, l.position)
          /\ (tok.token_type = "Eof") => l.position > Len(input)

\* the token loop has reached Eof on an input with whitespace in it, with four
\* tokens or more before the Eof
C25_Witness ==
    /\ pc = "lex"
    /\ AsciiNoNul
    /\ tok.token_type = "Eof"
    /\ \E i \in 1..Len(input) : input[i] \in Whitespace
    /\ Len(TokensUpTo(l).toks) >= 5

(***************************************************************************)
(* C26                                                                     *)
(***************************************************************************)
\* C26: next_token returns Eof only when every byte of the input has been
\* consumed, NUL bytes in the input or not: no call that starts inside the
\* input returns Eof, no call after an Eof returns another kind, and
\* parse_program returns only when the lexer is past the last byte.
C26_EofIsEndOfInput ==
    /\ [][(LexCall /\ abort' = "none" /\ tok'.token_type = "Eof")
           => TokenStart >= Len(input)]_vars
    /\ [][(LexCall /\ abort' = "none" /\ tok.token_type = "Eof")
           => tok'.token_type = "Eof"]_vars
    /\ [](pc = "done" => l.position >= Len(input))

(***************************************************************************)
(* C27                                                                     *)
(***************************************************************************)
\* a Return statement whose value, if it has one, has a known text
PrintableReturn(s) ==
    s.kind = "Return" /\ (s.value = None \/ \E pe \in PrintExprs : pe.exp = s.value)

\* "return <text of the value>;", "return ;" without a value
ReturnRendering(s) ==
    <<114, 101, 116, 117, 114, 110, 32>>
        \o (IF s.value = None THEN <<>>
            ELSE (CHOOSE pe \in PrintExprs : pe.exp = s.value).text)
        \o <<59>>

\* C27: a Return statement renders as "return", a space, the value's string if
\* there is a value, and ";": for a Program of Return statements, built by hand
\* or returned by parse_program, string() returns the concatenation of these
\* texts, one for each statement.
C27_ReturnString ==
    (pc = "string_done" /\ \A i \in 1..Len(program) : PrintableReturn(program[i]))
    => out = Concat([i \in 1..Len(program) |-> ReturnRendering(program[i])])

(***************************************************************************)
(* C28                                                                     *)
(***************************************************************************)
\* the Program is the one parse_program has returned
ParserOutput == current_token.token_type = "Eof"

\* C28: string() on a Program parse_program has returned never panics, an
\* IntegerLiteral without a value in it or not.
C28_StringTotal == ParserOutput => abort # "expect_none"

====
